---- MODULE Spec2Model ----
(***************************************************************************)
(* Task Management API (src/main.py): the in-memory store tasks_db and the *)
(* request handlers that read and write it.                                *)
(*                                                                         *)
(* Free text the code inspects character by character (title,             *)
(* description, search) is a sequence of one-character strings; text the  *)
(* code only compares for equality (ids, enum values, ISO dates) is a     *)
(* string.  Python values carry their type in the field t, JSON values of *)
(* a request body carry theirs in the field j.  A datetime is the number  *)
(* of minutes since 2025-01-01 00:00.                                     *)
(***************************************************************************)
EXTENDS Integers, Sequences, FiniteSets, TLC

VARIABLES
    tasks_db,   \* the store: insertion-ordered sequence of [key, val]
    clock,      \* what datetime.now() returns
    writes,     \* number of requests that have written the store
    req,        \* the request handled last
    resp,       \* its response
    db_before,  \* the store as that request found it
    inflight,   \* the requests whose handler coroutine has not returned yet
    log         \* the requests whose handler returned, in the order of return

vars == <<tasks_db, clock, writes, req, resp, db_before, inflight, log>>

-----------------------------------------------------------------------------
(* Bounds *)

\* successful writes (create, update, delete) per behaviour
MaxWrites == 2
\* minutes the clock advances after start-up
MaxTicks == 1
\* requests the server can have in flight at once
MaxInFlight == 2
\* requests per behaviour when requests overlap
MaxRequests == 3

-----------------------------------------------------------------------------
(* Python and JSON values *)

None == [t |-> "None"]
Str(s) == [t |-> "str", v |-> s]
Member(e, s) == [t |-> e, v |-> s]
DateTime(n) == [t |-> "datetime", v |-> n]

JNull == [j |-> "null"]
JStr(s) == [j |-> "string", v |-> s]
\* a key the body lacks, a query parameter the URL lacks
Absent == [j |-> "absent"]

\* no request is being handled
Idle == [op |-> "idle"]
NoResponse == [code |-> 0]

\* the connections the server accepts requests on; none holds a request
Slots == 1..MaxInFlight
NoneInFlight == [c \in Slots |-> Idle]

\* datetime(2025, month, day, hour, minute, 0)
Minutes(month, day, hour, minute) ==
    ((((month - 1) * 31 + (day - 1)) * 24) + hour) * 60 + minute

Min(a, b) == IF a < b THEN a ELSE b

Repeat(c, n) == [i \in 1..n |-> c]

UpperCase == <<"A","B","C","D","E","F","G","H","I","J","K","L","M",
               "N","O","P","Q","R","S","T","U","V","W","X","Y","Z">>
LowerCase == <<"a","b","c","d","e","f","g","h","i","j","k","l","m",
               "n","o","p","q","r","s","t","u","v","w","x","y","z">>

\* str.lower() of one character
LowerChar(c) ==
    IF \E i \in 1..26 : UpperCase[i] = c
    THEN LowerCase[CHOOSE i \in 1..26 : UpperCase[i] = c]
    ELSE c

\* str.lower()
lower(s) == [i \in 1..Len(s) |-> LowerChar(s[i])]

\* Python's  needle in hay  for strings
Contains(needle, hay) ==
    \E k \in 0..(Len(hay) - Len(needle)) :
        \A i \in 1..Len(needle) : hay[k + i] = needle[i]

\* Python's  s[a:b]  for a list, 0 <= a, 0 <= b
Slice(s, a, b) ==
    LET lo == Min(a, Len(s))
        hi == Min(b, Len(s))
    IN  IF hi <= lo THEN <<>> ELSE [i \in 1..(hi - lo) |-> s[lo + i]]

-----------------------------------------------------------------------------
(* Enums and models *)

TaskStatusValues == {"pending", "in-progress", "completed", "cancelled"}
TaskPriorityValues == {"low", "medium", "high", "urgent"}

TaskStatus(s) == Member("TaskStatus", s)
TaskPriority(p) == Member("TaskPriority", p)

TitleMinLength == 1
TitleMaxLength == 200
DescriptionMaxLength == 1000
LimitMin == 1
LimitMax == 100
LimitDefault == 100
OffsetMin == 0

TaskFields == {"id", "title", "description", "status", "priority",
               "due_date", "created_at", "updated_at"}

\* the fields TaskCreate and TaskUpdate declare
PayloadFields == {"title", "description", "status", "priority", "due_date"}

\* the ISO dates datetime parsing accepts, among those the requests carry
IsoDates == {"2025-02-01T10:00:00"}
FromIso(s) == CASE s = "2025-02-01T10:00:00" -> DateTime(Minutes(2, 1, 10, 0))

\* one declared field of TaskCreate / TaskUpdate accepts the JSON value j
IsStr(j, lo, hi) == j.j = "string" /\ Len(j.v) >= lo /\ Len(j.v) <= hi

FieldAccepts(f, j, optional) ==
    \/ optional /\ j = JNull
    \/ CASE f = "title" -> IsStr(j, TitleMinLength, TitleMaxLength)
         [] f = "description" -> IsStr(j, 0, DescriptionMaxLength)
         [] f = "status" -> j.j = "string" /\ j.v \in TaskStatusValues
         [] f = "priority" -> j.j = "string" /\ j.v \in TaskPriorityValues
         [] f = "due_date" -> j.j = "string" /\ j.v \in IsoDates

\* the Python value a validated JSON value becomes
FieldValue(f, j) ==
    IF j = JNull THEN None
    ELSE CASE f = "title" -> Str(j.v)
           [] f = "description" -> Str(j.v)
           [] f = "status" -> TaskStatus(j.v)
           [] f = "priority" -> TaskPriority(j.v)
           [] f = "due_date" -> FromIso(j.v)

\* TaskCreate: title is required and not Optional, status and priority are
\* not Optional and default, description and due_date are Optional
TaskCreateValid(body) ==
    /\ "title" \in DOMAIN body
    /\ \A f \in DOMAIN body \cap PayloadFields :
          FieldAccepts(f, body[f], f \in {"description", "due_date"})

\* TaskCreate with the defaults of status and priority left out
TaskCreate_no_defaults(body) ==
    [f \in PayloadFields |->
        IF f \in DOMAIN body THEN FieldValue(f, body[f]) ELSE None]

TaskCreate(body) ==
    [f \in PayloadFields |->
        IF f \in DOMAIN body THEN FieldValue(f, body[f])
        ELSE CASE f = "status" -> TaskStatus("pending")
               [] f = "priority" -> TaskPriority("medium")
               [] OTHER -> None]

\* TaskUpdate: every field is Optional, so null passes for each of them
TaskUpdateValid(body) ==
    \A f \in DOMAIN body \cap PayloadFields : FieldAccepts(f, body[f], TRUE)

\* model_dump() without exclude_unset: unset fields come out as None
model_dump_all(body) ==
    [f \in PayloadFields |->
        IF f \in DOMAIN body THEN FieldValue(f, body[f]) ELSE None]

\* task_update.model_dump(exclude_unset=True): the fields the body set;
\* keys the model does not declare are ignored
model_dump_exclude_unset(body) ==
    [f \in DOMAIN body \cap PayloadFields |-> FieldValue(f, body[f])]

\* existing_task.model_copy(update=...): no validation of the result
model_copy(task, update) ==
    [f \in TaskFields |-> IF f \in DOMAIN update THEN update[f] ELSE task[f]]

-----------------------------------------------------------------------------
(* The store: a dict, which keeps insertion order *)

Keys(db) == {db[i].key : i \in 1..Len(db)}
Has(db, k) == k \in Keys(db)
IndexOf(db, k) == CHOOSE i \in 1..Len(db) : db[i].key = k
Get(db, k) == db[IndexOf(db, k)].val
Values(db) == [i \in 1..Len(db) |-> db[i].val]

\* db[k] = v : a present key keeps its place, a new key goes last
Put(db, k, v) ==
    IF Has(db, k)
    THEN [db EXCEPT ![IndexOf(db, k)] = [key |-> k, val |-> v]]
    ELSE Append(db, [key |-> k, val |-> v])

\* db.pop(k), k present
Pop(db, k) ==
    LET n == IndexOf(db, k)
    IN  [i \in 1..(Len(db) - 1) |-> IF i < n THEN db[i] ELSE db[i + 1]]

sample_tasks == <<
    [id |-> "task-001",
     title |-> Str(<<"S","e","t","u","p"," ","D","e","v","e","l","o","p","m","e","n","t"," ","E","n","v","i","r","o","n","m","e","n","t">>),
     description |-> Str(<<"I","n","s","t","a","l","l"," ","P","y","t","h","o","n",","," ","F","a","s","t","A","P","I",","," ","a","n","d"," ","c","o","n","f","i","g","u","r","e"," ","I","D","E">>),
     status |-> TaskStatus("completed"),
     priority |-> TaskPriority("high"),
     due_date |-> DateTime(Minutes(1, 15, 10, 0)),
     created_at |-> DateTime(Minutes(1, 10, 9, 0)),
     updated_at |-> DateTime(Minutes(1, 14, 15, 30))],
    [id |-> "task-002",
     title |-> Str(<<"C","r","e","a","t","e"," ","A","P","I"," ","E","n","d","p","o","i","n","t","s">>),
     description |-> Str(<<"I","m","p","l","e","m","e","n","t"," ","C","R","U","D"," ","o","p","e","r","a","t","i","o","n","s"," ","f","o","r"," ","t","a","s","k"," ","m","a","n","a","g","e","m","e","n","t">>),
     status |-> TaskStatus("in-progress"),
     priority |-> TaskPriority("high"),
     due_date |-> DateTime(Minutes(1, 20, 18, 0)),
     created_at |-> DateTime(Minutes(1, 12, 10, 0)),
     updated_at |-> DateTime(Minutes(1, 13, 11, 0))],
    [id |-> "task-003",
     title |-> Str(<<"W","r","i","t","e"," ","U","n","i","t"," ","T","e","s","t","s">>),
     description |-> Str(<<"C","r","e","a","t","e"," ","c","o","m","p","r","e","h","e","n","s","i","v","e"," ","t","e","s","t"," ","s","u","i","t","e"," ","u","s","i","n","g"," ","p","y","t","e","s","t">>),
     status |-> TaskStatus("pending"),
     priority |-> TaskPriority("medium"),
     due_date |-> DateTime(Minutes(1, 25, 17, 0)),
     created_at |-> DateTime(Minutes(1, 13, 8, 0)),
     updated_at |-> DateTime(Minutes(1, 13, 8, 0))] >>

\* for task_data in sample_tasks: tasks_db[task_data["id"]] = Task(**task_data)
SeedStore == [i \in 1..Len(sample_tasks) |->
                [key |-> sample_tasks[i].id, val |-> sample_tasks[i]]]

\* The process starts no earlier than the newest timestamp of the seed data,
\* and its clock does not run backwards.
StartClock == Minutes(1, 14, 15, 30)

Init ==
    /\ tasks_db = SeedStore
    /\ clock = StartClock
    /\ writes = 0
    /\ req = Idle
    /\ resp = NoResponse
    /\ db_before = SeedStore
    /\ inflight = NoneInFlight
    /\ log = <<>>

-----------------------------------------------------------------------------
(* Requests *)

\* uuid.uuid4().hex[:8]: any eight hex digits; a sample of the 16^8 values
GenHex == {"0a1b2c3d", "9f8e7d6c"}

\* the ids requests name in their path
TargetIds == {"task-001", "non-existent-id"} \cup {"task-" \o h : h \in GenHex}

EmptyBody == [f \in {} |-> JNull]

Text_MinimalTask == <<"M","i","n","i","m","a","l"," ","T","a","s","k">>
Text_Example == <<"C","o","m","p","l","e","t","e"," ","A","P","I"," ","D","o","c","u","m","e","n","t","a","t","i","o","n">>
Text_ExampleDescription == <<"W","r","i","t","e"," ","c","o","m","p","r","e","h","e","n","s","i","v","e"," ","d","o","c","s"," ","w","i","t","h"," ","e","x","a","m","p","l","e","s">>
Text_Test == <<"T","e","s","t">>
Text_NoTitle == <<"N","o"," ","t","i","t","l","e">>
Text_UpdatedTitle == <<"U","p","d","a","t","e","d"," ","T","i","t","l","e">>
Text_API == <<"A","P","I">>

\* bodies of POST /api/tasks
CreateBodies == {
    [title |-> JStr(Text_MinimalTask)],
    [title |-> JStr(Text_Example), description |-> JStr(Text_ExampleDescription),
     status |-> JStr("pending"), priority |-> JStr("high"),
     due_date |-> JStr("2025-02-01T10:00:00")],
    [title |-> JStr(Repeat("x", TitleMaxLength)), description |-> JNull],
    [title |-> JStr(<<>>)],
    [title |-> JNull],
    [description |-> JStr(Text_NoTitle)],
    [title |-> JStr(Text_Test), status |-> JStr("invalid-status")],
    [title |-> JStr(Text_Test), status |-> JNull],
    [title |-> JStr(Text_Test), priority |-> JStr("super-urgent")],
    [title |-> JStr(Repeat("x", TitleMaxLength + 1))],
    [title |-> JStr(Text_Test),
     description |-> JStr(Repeat("x", DescriptionMaxLength + 1))] }

\* bodies of PUT /api/tasks/{task_id}
UpdateBodies == {
    EmptyBody,
    [status |-> JStr("in-progress")],
    [title |-> JStr(Text_UpdatedTitle), priority |-> JStr("urgent")],
    [title |-> JNull],
    [status |-> JNull, priority |-> JNull],
    [description |-> JNull, due_date |-> JNull, id |-> JStr("task-002")],
    [title |-> JStr(<<>>)],
    [status |-> JStr("invalid-status")],
    [title |-> JStr(Repeat("x", TitleMaxLength + 1))] }

\* query parameters of GET /api/tasks
Queries ==
    [status : {Absent, JStr("pending"), JStr("invalid-status")},
     priority : {Absent, JStr("high")},
     search : {Absent, JStr(Text_API)},
     limit : {LimitDefault},
     offset : {0}]
    \cup
    [status : {Absent},
     priority : {Absent},
     search : {Absent},
     limit : {LimitMin - 1, 1, 2, LimitMax + 1},
     offset : {OffsetMin - 1, 0, 1, 3}]
    \cup
    [status : {Absent},
     priority : {Absent},
     search : {JStr(<<>>)},
     limit : {LimitDefault},
     offset : {0}]

-----------------------------------------------------------------------------
(* Responses *)

\* HTTPException(404, f"Task with ID '{task_id}' not found")
NotFound(task_id) ==
    [code |-> 404, detail |-> "Task with ID '" \o task_id \o "' not found"]

\* request validation failed before the handler ran
Unprocessable == [code |-> 422]

\* an exception other than HTTPException left the handler
ServerError(exc) == [code |-> 500, exception |-> exc]

TaskResponse(code, message, task) ==
    [code |-> code, success |-> TRUE, message |-> message, data |-> task]

\* a request was handled: r is the request, a the response, db the store
\* after it; wrote says that the handler assigned to or popped from tasks_db
Handled(r, a, db, wrote) ==
    /\ req = Idle
    /\ req' = r
    /\ resp' = a
    /\ db_before' = tasks_db
    /\ tasks_db' = db
    /\ writes' = IF wrote THEN writes + 1 ELSE writes
    /\ UNCHANGED <<clock, inflight, log>>

-----------------------------------------------------------------------------
(* Handlers *)

\* Python truthiness of None, a str, an enum member
Truthy(x) == x # None /\ Len(x.v) > 0

\* a query parameter as the handler receives it
Param(f, j) ==
    IF j = Absent THEN None
    ELSE IF f = "search" THEN Str(j.v) ELSE FieldValue(f, j)

\* get_tasks, the filters: the tasks kept, or the exception t.title.lower()
\* raises on a task whose title is None
filter_tasks(db, status, priority, search) ==
    LET all == Values(db)
        HasStatus(t) == t.status = status
        HasPriority(t) == t.priority = priority
        by_status == IF Truthy(status) THEN SelectSeq(all, HasStatus) ELSE all
        by_priority == IF Truthy(priority)
                       THEN SelectSeq(by_status, HasPriority) ELSE by_status
        search_lower == lower(search.v)
        Found(t) == \/ Contains(search_lower, lower(t.title.v))
                    \/ /\ Truthy(t.description)
                       /\ Contains(search_lower, lower(t.description.v))
    IN  IF ~Truthy(search) THEN [raised |-> FALSE, tasks |-> by_priority]
        ELSE IF \E i \in 1..Len(by_priority) : by_priority[i].title = None
        THEN [raised |-> TRUE, exception |-> "AttributeError"]
        ELSE [raised |-> FALSE, tasks |-> SelectSeq(by_priority, Found)]

\* the page taken as filtered_tasks[offset:limit]
paginate_without_offset(filtered_tasks, limit, offset) ==
    Slice(filtered_tasks, offset, limit)

\* get_tasks, the page: filtered_tasks[offset:offset + limit]
paginate(filtered_tasks, limit, offset) ==
    Slice(filtered_tasks, offset, offset + limit)

QueryValid(q) ==
    /\ q.status = Absent \/ FieldAccepts("status", q.status, FALSE)
    /\ q.priority = Absent \/ FieldAccepts("priority", q.priority, FALSE)
    /\ q.limit >= LimitMin /\ q.limit <= LimitMax
    /\ q.offset >= OffsetMin

get_tasks_result(db, q) ==
    IF ~QueryValid(q) THEN Unprocessable
    ELSE LET f == filter_tasks(db, Param("status", q.status),
                               Param("priority", q.priority),
                               Param("search", q.search))
         IN  IF f.raised THEN ServerError(f.exception)
             ELSE LET paginated_tasks == paginate(f.tasks, q.limit, q.offset)
                  IN  [code |-> 200, success |-> TRUE,
                       count |-> Len(paginated_tasks),
                       data |-> paginated_tasks,
                       filtered_tasks |-> f.tasks]

get_task_result(db, task_id) ==
    IF ~Has(db, task_id) THEN NotFound(task_id)
    ELSE TaskResponse(200, "Task retrieved successfully", Get(db, task_id))

get_statistics_result(db) ==
    LET tasks == Values(db)
        Count(P(_)) == Len(SelectSeq(tasks, P))
    IN  [code |-> 200,
         total_tasks |-> Len(tasks),
         by_status |-> [s \in TaskStatusValues |->
                          LET Is(t) == t.status = TaskStatus(s) IN Count(Is)],
         by_priority |-> [p \in TaskPriorityValues |->
                          LET Is(t) == t.priority = TaskPriority(p) IN Count(Is)]]

\* create_task, the record built at lines 352-361
new_task(task_id, task, now) ==
    [id |-> task_id, title |-> task.title, description |-> task.description,
     status |-> task.status, priority |-> task.priority,
     due_date |-> task.due_date,
     created_at |-> DateTime(now), updated_at |-> DateTime(now)]

\* update_task stamping created_at in place of updated_at
updated_task_stamps_created(existing_task, body, now) ==
    LET update_data == model_dump_exclude_unset(body)
    IN  model_copy(existing_task,
                   [f \in DOMAIN update_data \cup {"created_at"} |->
                      IF f = "created_at" THEN DateTime(now) ELSE update_data[f]])

\* update_task, the record built at lines 405-411
updated_task(existing_task, body, now) ==
    LET update_data == model_dump_exclude_unset(body)
    IN  model_copy(existing_task,
                   [f \in DOMAIN update_data \cup {"updated_at"} |->
                      IF f = "updated_at" THEN DateTime(now) ELSE update_data[f]])

\* tasks_db.popitem() in place of tasks_db.pop(task_id)
deleted_last(db, task_id) == SubSeq(db, 1, Len(db) - 1)

\* tasks_db after delete_task popped task_id
deleted(db, task_id) == Pop(db, task_id)

root ==
    Handled([op |-> "root"],
            [code |-> 200, message |-> "Welcome to Task Management API",
             version |-> "1.0.0", docs |-> "/docs", redoc |-> "/redoc"],
            tasks_db, FALSE)

health_check ==
    Handled([op |-> "health"],
            [code |-> 200, status |-> "healthy", timestamp |-> clock,
             version |-> "1.0.0", total_tasks |-> Len(tasks_db)],
            tasks_db, FALSE)

get_tasks(q) ==
    Handled([op |-> "list", query |-> q], get_tasks_result(tasks_db, q),
            tasks_db, FALSE)

\* get_task taking the record out of the store as it returns it
get_task_evicts(task_id) ==
    Handled([op |-> "get", task_id |-> task_id],
            get_task_result(tasks_db, task_id),
            IF Has(tasks_db, task_id) THEN Pop(tasks_db, task_id) ELSE tasks_db,
            FALSE)

get_task(task_id) ==
    Handled([op |-> "get", task_id |-> task_id],
            get_task_result(tasks_db, task_id), tasks_db, FALSE)

get_statistics ==
    Handled([op |-> "stats"], get_statistics_result(tasks_db), tasks_db, FALSE)

create_task(body, hex) ==
    LET r == [op |-> "create", body |-> body, at |-> clock]
        task_id == "task-" \o hex
        task == new_task(task_id, TaskCreate(body), clock)
    IN  IF ~TaskCreateValid(body)
        THEN Handled(r, Unprocessable, tasks_db, FALSE)
        ELSE /\ writes < MaxWrites
             /\ Handled(r, TaskResponse(201, "Task created successfully", task),
                        Put(tasks_db, task_id, task), TRUE)

\* update_task writing the record before it looks the id up
update_task_upsert(task_id, body) ==
    LET r == [op |-> "update", task_id |-> task_id, body |-> body, at |-> clock]
    IN  IF ~TaskUpdateValid(body)
        THEN Handled(r, Unprocessable, tasks_db, FALSE)
        ELSE IF ~Has(tasks_db, task_id)
        THEN /\ writes < MaxWrites
             /\ Handled(r, NotFound(task_id),
                        Put(tasks_db, task_id,
                            new_task(task_id, TaskCreate_no_defaults(body), clock)),
                        TRUE)
        ELSE LET task == updated_task(Get(tasks_db, task_id), body, clock)
             IN  /\ writes < MaxWrites
                 /\ Handled(r, TaskResponse(200, "Task updated successfully", task),
                            Put(tasks_db, task_id, task), TRUE)

update_task(task_id, body) ==
    LET r == [op |-> "update", task_id |-> task_id, body |-> body, at |-> clock]
    IN  IF ~TaskUpdateValid(body)
        THEN Handled(r, Unprocessable, tasks_db, FALSE)
        ELSE IF ~Has(tasks_db, task_id)
        THEN Handled(r, NotFound(task_id), tasks_db, FALSE)
        ELSE LET task == updated_task(Get(tasks_db, task_id), body, clock)
             IN  /\ writes < MaxWrites
                 /\ Handled(r, TaskResponse(200, "Task updated successfully", task),
                            Put(tasks_db, task_id, task), TRUE)

delete_task(task_id) ==
    LET r == [op |-> "delete", task_id |-> task_id]
    IN  IF ~Has(tasks_db, task_id)
        THEN Handled(r, NotFound(task_id), tasks_db, FALSE)
        ELSE /\ writes < MaxWrites
             /\ Handled(r, [code |-> 200, success |-> TRUE,
                            deleted_title |-> Get(tasks_db, task_id).title,
                            deleted_id |-> task_id],
                        deleted(tasks_db, task_id), TRUE)

\* datetime.now() moves on between requests
Tick ==
    /\ req = Idle
    /\ clock < StartClock + MaxTicks
    /\ clock' = clock + 1
    /\ UNCHANGED <<tasks_db, writes, req, resp, db_before, inflight, log>>

\* the response is sent; the server waits for the next request
respond ==
    /\ req # Idle
    /\ req' = Idle
    /\ resp' = NoResponse
    /\ db_before' = tasks_db
    /\ UNCHANGED <<tasks_db, clock, writes, inflight, log>>

Next ==
    \/ Tick
    \/ respond
    \/ root
    \/ health_check
    \/ get_statistics
    \/ \E q \in Queries : get_tasks(q)
    \/ \E task_id \in TargetIds : get_task(task_id)
    \/ \E body \in CreateBodies, hex \in GenHex : create_task(body, hex)
    \/ \E task_id \in TargetIds, body \in UpdateBodies : update_task(task_id, body)
    \/ \E task_id \in TargetIds : delete_task(task_id)

Spec == Init /\ [][Next]_vars

-----------------------------------------------------------------------------
(* Overlapping requests *)

\* What one handler does to the store when nothing runs between its
\* statements: the store after it and its response.  r is a valid request.
handle(db, r, now) ==
    CASE r.op = "get" ->
           [db |-> db, resp |-> get_task_result(db, r.task_id)]
      [] r.op = "create" ->
           LET task_id == "task-" \o r.hex
               task == new_task(task_id, TaskCreate(r.body), now)
           IN  [db |-> Put(db, task_id, task),
                resp |-> TaskResponse(201, "Task created successfully", task)]
      [] r.op = "update" ->
           IF ~Has(db, r.task_id)
           THEN [db |-> db, resp |-> NotFound(r.task_id)]
           ELSE LET task == updated_task(Get(db, r.task_id), r.body, now)
                IN  [db |-> Put(db, r.task_id, task),
                     resp |-> TaskResponse(200, "Task updated successfully", task)]
      [] r.op = "delete" ->
           IF ~Has(db, r.task_id)
           THEN [db |-> db, resp |-> NotFound(r.task_id)]
           ELSE [db |-> deleted(db, r.task_id),
                 resp |-> [code |-> 200, success |-> TRUE,
                           deleted_title |-> Get(db, r.task_id).title,
                           deleted_id |-> r.task_id]]

\* a handler that looked task_id up before it was suspended goes on with
\* what it read: update_task from line 409, delete_task from line 446
resume(db, r, now) ==
    CASE r.op = "update" ->
           LET task == updated_task(r.existing_task, r.body, now)
           IN  [db |-> Put(db, r.task_id, task),
                resp |-> TaskResponse(200, "Task updated successfully", task)]
      [] r.op = "delete" ->
           IF ~Has(db, r.task_id)
           THEN [db |-> db, resp |-> ServerError("KeyError")]
           ELSE [db |-> deleted(db, r.task_id),
                 resp |-> [code |-> 200, success |-> TRUE,
                           deleted_title |-> Get(db, r.task_id).title,
                           deleted_id |-> r.task_id]]

\* handlers that can be suspended between the lookup of task_id and the
\* write, as when they are plain functions run on threads
Suspends_on_threads(op) == op \in {"update", "delete"}

\* The handler of op can be suspended between looking task_id up and writing
\* the store.  The handlers are coroutines (async def) whose bodies hold no
\* await: the event loop runs each from its first statement to its return.
Suspends(op) == FALSE

\* the valid requests that overlap
ConcurrentRequests ==
    {[op |-> "update", task_id |-> "task-001", body |-> b] :
        b \in {[status |-> JStr("in-progress")],
               [title |-> JStr(Text_UpdatedTitle), priority |-> JStr("urgent")]}}
    \cup {[op |-> "delete", task_id |-> "task-001"],
          [op |-> "get", task_id |-> "task-001"]}

InFlight == {c \in Slots : inflight[c] # Idle}

\* the server accepts a request; its handler is scheduled
accept(c, r) ==
    /\ inflight[c] = Idle
    /\ \A d \in Slots : d < c => inflight[d] # Idle
    /\ Len(log) + Cardinality(InFlight) < MaxRequests
    /\ inflight' = [inflight EXCEPT ![c] = r @@ [pc |-> "scheduled"]]
    /\ UNCHANGED <<tasks_db, clock, writes, req, resp, db_before, log>>

\* the handler of the request c returned a: its response goes out
Returned(c, a, db) ==
    /\ tasks_db' = db
    /\ inflight' = [inflight EXCEPT ![c] = Idle]
    /\ log' = Append(log, [req |-> inflight[c], at |-> clock, resp |-> a,
                           overlapped |-> InFlight \ {c}])
    /\ UNCHANGED <<clock, writes, req, resp, db_before>>

\* the event loop runs the handler of the request c until it is suspended
\* or returns
run_handler(c) ==
    LET r == inflight[c]
    IN  /\ r # Idle
        /\ IF r.pc = "looked_up"
           THEN LET h == resume(tasks_db, r, clock)
                IN  Returned(c, h.resp, h.db)
           ELSE IF /\ r.op \in {"update", "delete"}
                   /\ Has(tasks_db, r.task_id)
                   /\ Suspends(r.op)
           THEN /\ inflight' = [inflight EXCEPT ![c] =
                       [r EXCEPT !.pc = "looked_up"]
                       @@ [existing_task |-> Get(tasks_db, r.task_id)]]
                /\ UNCHANGED <<tasks_db, clock, writes, req, resp, db_before, log>>
           ELSE LET h == handle(tasks_db, r, clock)
                IN  Returned(c, h.resp, h.db)

NextConcurrent ==
    \/ Tick
    \/ \E c \in Slots, r \in ConcurrentRequests : accept(c, r)
    \/ \E c \in Slots : run_handler(c)

SpecConcurrent == Init /\ [][NextConcurrent]_vars

-----------------------------------------------------------------------------
(* Properties *)

Max(a, b) == IF a > b THEN a ELSE b

RECURSIVE SumOver(_, _)
SumOver(f, S) ==
    IF S = {} THEN 0
    ELSE LET x == CHOOSE y \in S : TRUE IN f[x] + SumOver(f, S \ {x})

GeneratedIds == {"task-" \o h : h \in GenHex}

\* the causes of rejection the create contract lists
CreateMustBeRejected(body) ==
    \/ "title" \notin DOMAIN body
    \/ body.title.j = "string" /\ Len(body.title.v) = 0
    \/ body.title.j = "string" /\ Len(body.title.v) > 200
    \/ /\ "description" \in DOMAIN body
       /\ body.description.j = "string" /\ Len(body.description.v) > 1000
    \/ /\ "status" \in DOMAIN body
       /\ body.status.j = "string"
       /\ body.status.v \notin {"pending", "in-progress", "completed", "cancelled"}
    \/ /\ "priority" \in DOMAIN body
       /\ body.priority.j = "string"
       /\ body.priority.v \notin {"low", "medium", "high", "urgent"}

\* C1: a request that ends in an error leaves the store exactly as it was: a
\* create rejected by validation (title missing, empty, longer than 200,
\* description longer than 1000, status or priority outside its enum) is an
\* error, and it, an update of an absent id and a delete of an absent id
\* leave the stored ids and every stored record unchanged.
C1_ErrorLeavesStore ==
    /\ resp.code >= 400 => tasks_db = db_before
    /\ (req.op = "create" /\ CreateMustBeRejected(req.body)) => resp.code = 422
    /\ (req.op \in {"update", "delete"} /\ ~Has(db_before, req.task_id))
          => resp.code >= 400

C1_Witness ==
    /\ req.op = "update"
    /\ resp.code = 404
    /\ req.body = [status |-> JStr("in-progress")]
    /\ Len(tasks_db) = 4

\* C2: after a successful PUT a GET on the same id returns a record in which
\* each field present in the payload (null included) has the payload's value,
\* each absent field, and always id and created_at, has its prior value, and
\* updated_at is at least its prior value.
C2_UpdateThenGet ==
    (req.op = "update" /\ resp.code = 200) =>
        LET old == Get(db_before, req.task_id)
            got == get_task_result(tasks_db, req.task_id)
        IN  /\ got.code = 200
            /\ \A f \in PayloadFields :
                  got.data[f] = IF f \in DOMAIN req.body
                                THEN FieldValue(f, req.body[f]) ELSE old[f]
            /\ got.data.id = old.id
            /\ got.data.created_at = old.created_at
            /\ got.data.updated_at.v >= old.updated_at.v

C2_Witness ==
    /\ req.op = "update"
    /\ resp.code = 200
    /\ req.body = [description |-> JNull, due_date |-> JNull, id |-> JStr("task-002")]
    /\ Get(db_before, req.task_id).description # None
    /\ Get(tasks_db, req.task_id).updated_at.v
          > Get(db_before, req.task_id).updated_at.v

TaskSatisfiesConstraints(t) ==
    /\ t.title.t = "str" /\ Len(t.title.v) >= 1 /\ Len(t.title.v) <= 200
    /\ t.description = None
          \/ (t.description.t = "str" /\ Len(t.description.v) <= 1000)
    /\ t.status \in {TaskStatus(x) : x \in {"pending", "in-progress", "completed", "cancelled"}}
    /\ t.priority \in {TaskPriority(x) : x \in {"low", "medium", "high", "urgent"}}

\* C3: in every reachable state every stored task satisfies the Task field
\* constraints: title a string of 1 to 200 characters, description absent or
\* at most 1000 characters, status and priority each one of their four values.
C3_StoredTasksValid ==
    \A i \in 1..Len(tasks_db) : TaskSatisfiesConstraints(tasks_db[i].val)

\* C4: after a successful DELETE of an id that record and only that record is
\* gone: one record fewer, every other record unchanged and in place, and a
\* GET or a DELETE of an id that is not stored answers 404.
C4_DeleteRemovesOne ==
    /\ (req.op = "delete" /\ resp.code = 200) =>
          LET Other(e) == e.key # req.task_id
          IN  /\ Has(db_before, req.task_id)
              /\ Len(tasks_db) = Len(db_before) - 1
              /\ tasks_db = SelectSeq(db_before, Other)
              /\ get_task_result(tasks_db, req.task_id).code = 404
    /\ (req.op \in {"get", "delete"} /\ ~Has(db_before, req.task_id))
          => resp.code = 404

C4_Witness ==
    /\ req.op = "delete"
    /\ resp.code = 200
    /\ req.task_id = "task-001"
    /\ Len(tasks_db) = 3

\* C5: a successful create inserts the task under an id that was not in the
\* store before: the store grows by exactly one record, every record stored
\* before is unchanged, and every key equals the id of the record under it.
C5_CreateInsertsFresh ==
    /\ (req.op = "create" /\ resp.code = 201) =>
          /\ ~Has(db_before, resp.data.id)
          /\ Len(tasks_db) = Len(db_before) + 1
          /\ \A i \in 1..Len(db_before) : tasks_db[i] = db_before[i]
    /\ \A i \in 1..Len(tasks_db) : tasks_db[i].key = tasks_db[i].val.id

\* C6: in every reachable state GET /api/stats returns total_tasks equal to
\* the number of stored tasks, by_status and by_priority with exactly their
\* four keys, and the counts of each grouping sum to total_tasks.
C6_StatsSumToTotal ==
    LET stats == get_statistics_result(tasks_db)
    IN  /\ stats.total_tasks = Len(tasks_db)
        /\ DOMAIN stats.by_status = {"pending", "in-progress", "completed", "cancelled"}
        /\ DOMAIN stats.by_priority = {"low", "medium", "high", "urgent"}
        /\ SumOver(stats.by_status, DOMAIN stats.by_status) = stats.total_tasks
        /\ SumOver(stats.by_priority, DOMAIN stats.by_priority) = stats.total_tasks

\* C7: in every reachable state every stored task has created_at <= updated_at;
\* a create sets both to the instant of the request, and an update replaces
\* updated_at with the instant of the request and leaves created_at alone.
C7_CreatedBeforeUpdated ==
    /\ \A i \in 1..Len(tasks_db) :
          tasks_db[i].val.created_at.v <= tasks_db[i].val.updated_at.v
    /\ (req.op = "create" /\ resp.code = 201) =>
          /\ resp.data.created_at = DateTime(req.at)
          /\ resp.data.updated_at = DateTime(req.at)
    /\ (req.op = "update" /\ resp.code = 200) =>
          /\ Get(tasks_db, req.task_id).created_at
                = Get(db_before, req.task_id).created_at
          /\ Get(tasks_db, req.task_id).updated_at = DateTime(req.at)

C7_Witness ==
    /\ req.op = "update"
    /\ resp.code = 200
    /\ req.task_id \in GeneratedIds
    /\ resp.data.created_at.v < resp.data.updated_at.v

\* the task satisfies every filter the query supplies
Matches(t, q) ==
    LET InText(x) == x.t = "str" /\ Contains(lower(q.search.v), lower(x.v))
    IN  /\ q.status # Absent => t.status = TaskStatus(q.status.v)
        /\ q.priority # Absent => t.priority = TaskPriority(q.priority.v)
        /\ q.search # Absent => InText(t.title) \/ InText(t.description)

\* C8: for every store state and every combination of the optional status,
\* priority and search parameters, the filtered result of GET /api/tasks is
\* exactly the stored tasks, in store order, that satisfy all supplied filters.
C8_FilterIsConjunction ==
    (req.op = "list" /\ QueryValid(req.query)) =>
        LET Keep(t) == Matches(t, req.query)
        IN  /\ resp.code = 200
            /\ resp.filtered_tasks = SelectSeq(Values(db_before), Keep)

\* C9: for limit in 1..100 and offset >= 0 the data returned is the filtered
\* list with its first offset items skipped and at most limit items taken, in
\* order; count is the length of the data, at most limit, and an offset at or
\* past the end gives an empty page with count 0.
C9_Pagination ==
    (req.op = "list" /\ resp.code = 200) =>
        LET filtered == resp.filtered_tasks
            limit == req.query.limit
            offset == req.query.offset
        IN  /\ Len(resp.data) = Min(limit, Max(0, Len(filtered) - offset))
            /\ \A i \in 1..Len(resp.data) : resp.data[i] = filtered[offset + i]
            /\ resp.count = Len(resp.data)
            /\ resp.count <= limit
            /\ offset >= Len(filtered) => resp.data = <<>> /\ resp.count = 0

C9_Witness ==
    /\ req.op = "list"
    /\ resp.code = 200
    /\ req.query.limit = 2
    /\ req.query.offset = 1
    /\ Len(resp.filtered_tasks) = 4
    /\ resp.count = 2

\* C10: a create whose payload holds only a valid title stores and returns a
\* task with status pending, priority medium, description and due_date None,
\* an id "task-" followed by generated characters and created_at equal to
\* updated_at; fields the payload supplies are stored with the supplied values.
C10_CreateDefaults ==
    /\ (req.op = "create" /\ DOMAIN req.body = {"title"}
          /\ req.body.title.j = "string"
          /\ Len(req.body.title.v) \in 1..200) =>
          /\ resp.code = 201
          /\ resp.data.status = TaskStatus("pending")
          /\ resp.data.priority = TaskPriority("medium")
          /\ resp.data.description = None
          /\ resp.data.due_date = None
          /\ resp.data.id \in GeneratedIds
          /\ resp.data.created_at = resp.data.updated_at
    /\ (req.op = "create" /\ resp.code = 201) =>
          /\ \A f \in DOMAIN req.body :
                resp.data[f] = FieldValue(f, req.body[f])
          /\ Has(tasks_db, resp.data.id)
          /\ Get(tasks_db, resp.data.id) = resp.data

C10_Witness ==
    /\ req.op = "create"
    /\ resp.code = 201
    /\ DOMAIN req.body = {"title"}
    /\ Get(tasks_db, resp.data.id).status = TaskStatus("pending")

\* the request just handled wrote the record of task_id
WroteId(task_id) ==
    \/ req.op \in {"update", "delete"} /\ req.task_id = task_id /\ resp.code = 200
    \/ req.op = "create" /\ resp.code = 201 /\ resp.data.id = task_id

C11_ReadLeavesStore ==
    /\ req.op \in {"root", "health", "stats", "list", "get"} => tasks_db = db_before
    /\ (req.op = "get" /\ ~Has(db_before, req.task_id)) =>
          /\ resp.code = 404
          /\ resp.detail = "Task with ID '" \o req.task_id \o "' not found"
    /\ (req.op = "get" /\ Has(db_before, req.task_id)) =>
          /\ resp.code = 200
          /\ resp.data = Get(db_before, req.task_id)
    /\ req.op = "get" => get_task_result(tasks_db, req.task_id) = resp

C11_GetChangesOnlyByWrite ==
    \A task_id \in TargetIds :
        get_task_result(tasks_db', task_id) # get_task_result(tasks_db, task_id)
            => WroteId(task_id)'

\* C11: read requests (list, get one, stats, health) never change the store,
\* so a GET of an absent id answers 404 with detail "Task with ID '<id>' not
\* found" and a GET of a present id returns the stored record, and the answer
\* a GET of an id would get changes only in a step that creates, updates or
\* deletes that id.
C11_ReadsRepeatable ==
    [](C11_ReadLeavesStore) /\ [][C11_GetChangesOnlyByWrite]_vars

C11_Witness ==
    /\ req.op = "get"
    /\ req.task_id = "task-001"
    /\ resp.code = 404
    /\ resp.detail = "Task with ID 'task-001' not found"
    /\ writes = 1

\* the store after the first n requests of the log ran one after another
RECURSIVE SerialStore(_)
SerialStore(n) ==
    IF n = 0 THEN SeedStore
    ELSE handle(SerialStore(n - 1), log[n].req, log[n].at).db

\* the request log[i] succeeded in writing the record of task_id
LogWrote(i, ops, task_id) ==
    /\ log[i].req.op \in ops
    /\ log[i].resp.code \in {200, 201}
    /\ IF log[i].req.op = "create" THEN log[i].resp.data.id = task_id
       ELSE log[i].req.task_id = task_id

LastOf(S) == CHOOSE i \in S : \A j \in S : j <= i

LoggedIds == {"task-001"} \cup GeneratedIds

\* C12: with several requests in flight every handler's access to the store
\* takes effect as one atomic step in a serial order (the order in which the
\* handlers return): store and responses are those of the requests run one
\* after another; no update is lost (each field holds what the last update
\* that set it wrote); and a task deleted and not created again is not in
\* the store, so no update writes it back after a concurrent delete.
C12_HandlersAtomic ==
    /\ tasks_db = SerialStore(Len(log))
    /\ \A n \in 1..Len(log) :
          log[n].resp = handle(SerialStore(n - 1), log[n].req, log[n].at).resp
    /\ \A task_id \in LoggedIds, f \in PayloadFields :
          LET made == {i \in 1..Len(log) : LogWrote(i, {"create", "delete"}, task_id)}
              sets == {i \in 1..Len(log) :
                          /\ LogWrote(i, {"update"}, task_id)
                          /\ f \in DOMAIN log[i].req.body
                          /\ \A j \in made : j < i}
          IN  sets # {} =>
                 /\ Has(tasks_db, task_id)
                 /\ Get(tasks_db, task_id)[f]
                       = FieldValue(f, log[LastOf(sets)].req.body[f])
    /\ \A task_id \in LoggedIds :
          LET dels == {i \in 1..Len(log) : LogWrote(i, {"delete"}, task_id)}
          IN  (/\ dels # {}
               /\ \A j \in 1..Len(log) :
                     LogWrote(j, {"create"}, task_id) => j < LastOf(dels))
                 => ~Has(tasks_db, task_id)

C12_Witness ==
    /\ Len(log) = 2
    /\ log[1].req.op = "update" /\ log[1].resp.code = 200
    /\ log[2].req.op = "update" /\ log[2].resp.code = 200
    /\ log[1].req.body # log[2].req.body
    /\ log[1].overlapped # {}
    /\ Get(tasks_db, "task-001").status = TaskStatus("in-progress")
    /\ Get(tasks_db, "task-001").title = Str(Text_UpdatedTitle)

====
